---- MODULE Spec2Model ----
(***************************************************************************)
(* The synchronization core of SHAMap (src/ripple/shamap/impl/             *)
(* SHAMapSync.cpp): the missing-node scanner getMissingNodes and the       *)
(* grafting operations addRootNode / addKnownNode, over a content          *)
(* addressed universe of nodes, a backing store and the full-below cache;  *)
(* and the read-only operations of the same file (visitNodes, getNodeFat,  *)
(* hasInnerNode, hasLeafNode, visitDifferences, getFetchPack,              *)
(* deepCompare), applied to maps in every residency of their nodes.        *)
(*                                                                         *)
(* A node instance is identified by its hash (the canonical instance kept  *)
(* by canonicalize).  Only leaves occur at more than one position of the   *)
(* universe, and a leaf has no mutable field, so this identification is    *)
(* exact for backed and for unbacked maps.                                 *)
(***************************************************************************)
EXTENDS Integers, Sequences, FiniteSets, TLC

(***************************************************************************)
(* Program constants                                                       *)
(***************************************************************************)
\* an inner node has 16 branches (the "% 16" and "< 16" of every loop)
BranchCount == 16

\* rand_int(255): firstChild is drawn from 0 .. 255
MaxRand == 255

\* the zero hash: "unknown / empty root"; also used for a null pointer
ZeroHash == 0

\* std::size_t max: unsigned arithmetic, --max on 0 wraps to the largest
\* value.  The model keeps the wrap-around with a narrower word, because the
\* model checker's integers are 32 bits wide.
SizeBits == 30

SizeModulus == 2 ^ SizeBits

(***************************************************************************)
(* Bounds of the model                                                     *)
(***************************************************************************)
\* largest max handed to getMissingNodes
MaxMax == 2

\* f_.db().getDesiredAsyncReadCount()
MaxDefer == 1

\* largest value the full-below generation reaches (it starts at 1)
MaxGen == 2

Branches == 0 .. (BranchCount - 1)

\* the values of firstChild that are explored: 0 starts a frame at branch 0,
\* MaxRand at branch 15
FirstChildSamples == {0, MaxRand}

(***************************************************************************)
(* The universe of nodes, by hash.  1, 2: leaves.  3: inner node with the  *)
(* same leaf under two branches.  5: inner node with a single child.       *)
(* 4: inner node over 3 and 5, the root of a three-level tree.  6: a leaf  *)
(* that is a tree of its own.  ZeroHash: the empty root a map is           *)
(* constructed with.  7, 8, 9: roots of the other maps the read-only       *)
(* operations are checked on: 7 shares the subtree 3 with 4 and has the    *)
(* leaf 2 one level higher; 8 is a chain of single-child nodes; 9 has an   *)
(* inner child followed by empty branches only.                            *)
(***************************************************************************)
NoBranches == [b \in Branches |-> ZeroHash]

LeafNode == [inner |-> FALSE, child |-> NoBranches]

InnerNode(children) == [inner |-> TRUE, child |-> children]

Universe ==
    (ZeroHash :> InnerNode(NoBranches)) @@
    (1 :> LeafNode) @@
    (2 :> LeafNode) @@
    (3 :> InnerNode([NoBranches EXCEPT ![5] = 1, ![7] = 1])) @@
    (4 :> InnerNode([NoBranches EXCEPT ![0] = 3, ![15] = 5])) @@
    (5 :> InnerNode([NoBranches EXCEPT ![15] = 2])) @@
    (6 :> LeafNode) @@
    (7 :> InnerNode([NoBranches EXCEPT ![0] = 3, ![15] = 2])) @@
    (8 :> InnerNode([NoBranches EXCEPT ![15] = 5])) @@
    (9 :> InnerNode([NoBranches EXCEPT ![0] = 3]))

Hashes == (DOMAIN Universe) \ {ZeroHash}

InnerHashes == {h \in DOMAIN Universe : Universe[h].inner}

isInner(h) == Universe[h].inner

isLeaf(h) == ~Universe[h].inner

isEmptyBranch(h, branch) == Universe[h].child[branch] = ZeroHash

getChildHash(h, branch) == Universe[h].child[branch]

\* SHAMapNodeID: the sequence of branches from the root; depth is its length
getChildNodeID(nodeId, branch) == Append(nodeId, branch)

getDepth(nodeId) == Len(nodeId)

\* nodeID.selectBranch(key): the nibble of the key at the node's depth
selectBranch(nodeId, target) == target[Len(nodeId) + 1]

\* this.has_common_prefix(other): the first depth nibbles agree
has_common_prefix(nodeId, other) ==
    /\ Len(nodeId) <= Len(other)
    /\ SubSeq(other, 1, Len(nodeId)) = nodeId

(***************************************************************************)
(* Inputs.  A raw node is modelled by what SHAMapAbstractNode::make and    *)
(* the checks of the graft point make of it: whether it decodes, whether   *)
(* it is valid, its hash, the answer of isInBounds at the graft point, the *)
(* answer of isInconsistentNode, and whether it is a SHAMapInnerNodeV2.    *)
(***************************************************************************)
MakeNode(h, valid, inBounds, inconsistent, v2) ==
    [null |-> FALSE, hash |-> h, valid |-> valid, inBounds |-> inBounds,
     inconsistent |-> inconsistent, v2 |-> v2]

NullNode ==
    [null |-> TRUE, hash |-> ZeroHash, valid |-> FALSE, inBounds |-> FALSE,
     inconsistent |-> FALSE, v2 |-> FALSE]

GoodNode(h) == MakeNode(h, TRUE, TRUE, FALSE, FALSE)

\* raw nodes handed to addKnownNode: every node of the universe below a
\* root as it is, and, for the inner node 3 and the leaf 1, raw nodes that
\* fail one of the checks of the graft point
NodeInputs ==
    {NullNode} \cup
    {GoodNode(h) : h \in {1, 2, 3, 5}} \cup
    UNION {{MakeNode(h, FALSE, TRUE, FALSE, FALSE),
            MakeNode(h, TRUE, FALSE, FALSE, FALSE),
            MakeNode(h, TRUE, TRUE, TRUE, FALSE),
            MakeNode(h, TRUE, TRUE, FALSE, TRUE)} : h \in {1, 3}}

\* node ids handed to addKnownNode: the positions of the tree under hash 4
\* and one position under an empty branch
Targets == {<<0>>, <<0, 5>>, <<0, 7>>, <<15>>, <<15, 15>>, <<1>>}

\* hashes handed to addRootNode, and the raw nodes handed with them
RootHashes == {4, 6}

RootNodeInputs ==
    {NullNode, GoodNode(4), GoodNode(6),
     MakeNode(4, FALSE, TRUE, FALSE, FALSE)}

\* roots of the maps of the read-only operations
ReadRoots == {ZeroHash, 4, 6, 7, 8, 9}

\* hashes of the nodes below a root: what the store may gain
StoreHashes == Hashes \ (RootHashes \cup ReadRoots)

MaxArgs == 0 .. MaxMax

(***************************************************************************)
(* State                                                                   *)
(***************************************************************************)
VARIABLES
    root,           \* root_: hash of the root node (ZeroHash: the empty root)
    state,          \* state_: "Synching", "Valid", "Invalid"
    backed,         \* backed_
    childPtr,       \* child pointers: <<parent, branch, child>> triples
    fullBelowGen,   \* fullBelowGen_ of every inner node
    store,          \* hashes the store (tree cache, database, filter) holds
    fullbelow,      \* f_.fullbelow(): hashes of the current generation
    cacheGen,       \* f_.fullbelow().getGeneration()
    aborted,        \* an assert of a checked build has failed
    pc,             \* "idle", "returned" (a call has just returned and its
                    \* result is in last), or the position inside
                    \* getMissingNodes: "dfs", "drain"
    max, ret, generation, missingHashes, deferredReads, stack,
    node, nodeID, firstChild, currentChild, fullBelow,
                    \* the locals of getMissingNodes, named as in the source
    last            \* the call in progress or just returned: operation,
                    \* arguments, state_ at its start, and, once returned,
                    \* the line of the return statement and the value

mapVars == <<root, state, backed, childPtr, fullBelowGen>>

envVars == <<store, fullbelow, cacheGen>>

gmnVars == <<max, ret, generation, missingHashes, deferredReads, stack,
             node, nodeID, firstChild, currentChild, fullBelow>>

vars == <<mapVars, envVars, aborted, pc, gmnVars, last>>

NoCall ==
    [op |-> "none", site |-> 0, ret |-> "none", gotNode |-> FALSE,
     max |-> 0, nodes |-> <<>>, pre |-> "none", target |-> <<>>,
     hash |-> ZeroHash, newNode |-> NullNode, filter |-> FALSE,
     arg |-> <<>>, out |-> <<>>]

\* the record of a call of addRootNode or addKnownNode that has returned
Returned(op, site, r, got, target, hash, newNode, filter) ==
    [NoCall EXCEPT !.op = op, !.site = site, !.ret = r, !.gotNode = got,
                   !.pre = state, !.target = target, !.hash = hash,
                   !.newNode = newNode, !.filter = filter]

(***************************************************************************)
(* Collaborators of the core that live outside SHAMapSync.cpp              *)
(***************************************************************************)
\* parent->getChildPointer(branch), ZeroHash for a null pointer
getChildPointer(ptrs, parent, branch) ==
    LET s == {t \in ptrs : t[1] = parent /\ t[2] = branch}
    IN  IF s = {} THEN ZeroHash ELSE (CHOOSE t \in s : TRUE)[3]

\* parent->canonicalizeChild(branch, node): install the pointer unless the
\* slot already holds one
canonicalizeChild(ptrs, parent, branch, child) ==
    IF getChildPointer(ptrs, parent, branch) # ZeroHash
    THEN ptrs
    ELSE ptrs \cup {<<parent, branch, child>>}

\* canonicalize(hash, node): the tree cache now holds the instance
canonicalize(st, h) == st \cup {h}

\* fetchNodeNT(hash, filter): the node, or null
fetchNodeNT(h) == IF h \in store THEN h ELSE ZeroHash

\* f_.fullbelow().touch_if_exists(hash)
touch_if_exists(h) == h \in fullbelow

\* inner->isFullBelow(generation)
isFullBelow(h, gen) == fullBelowGen[h] = gen

\* clearSynching()
clearSynching == "Valid"

isSynching == state = "Synching"

(***************************************************************************)
(* Initial state: a map constructed for synching.  Its root is the empty   *)
(* root, or a root already materialised from the backing store; no child   *)
(* pointer is set and nothing is proven full below.                        *)
(***************************************************************************)
Init ==
    /\ root \in {ZeroHash} \cup RootHashes
    /\ state = "Synching"
    /\ backed \in BOOLEAN
    /\ childPtr = {}
    /\ fullBelowGen = [h \in InnerHashes |-> 0]
    /\ store = IF root # ZeroHash /\ backed THEN {root} ELSE {}
    /\ fullbelow = {}
    /\ cacheGen = 1
    /\ aborted = FALSE
    /\ pc = "idle"
    /\ max = 0
    /\ ret = <<>>
    /\ generation = 0
    /\ missingHashes = {}
    /\ deferredReads = <<>>
    /\ stack = <<>>
    /\ node = ZeroHash
    /\ nodeID = <<>>
    /\ firstChild = 0
    /\ currentChild = 0
    /\ fullBelow = TRUE
    /\ last = NoCall

(***************************************************************************)
(* The environment, between calls: another map that shares the backing     *)
(* store puts a node into it; the generation is bumped externally.  The    *)
(* sync filter is a sink (gotNode) and supplies no node, so an unbacked    *)
(* map has no source of nodes but addRootNode and addKnownNode.            *)
(***************************************************************************)
StoreGain(h) ==
    /\ pc = "idle" /\ ~aborted
    /\ backed
    /\ h \notin store
    /\ store' = store \cup {h}
    /\ UNCHANGED <<mapVars, fullbelow, cacheGen, aborted, pc, gmnVars, last>>

GenBump ==
    /\ pc = "idle" /\ ~aborted
    /\ cacheGen < MaxGen
    /\ cacheGen' = cacheGen + 1
    /\ fullbelow' = {}
    /\ UNCHANGED <<mapVars, store, aborted, pc, gmnVars, last>>

(***************************************************************************)
(* addRootNode                                                             *)
(***************************************************************************)
\* root_->getNodeHash ().isNonZero ()
\* variant: the installed root is not looked at
RootInstalledIgnored == FALSE

RootInstalled == root # ZeroHash

\* !node || !node->isValid() || node->getNodeHash () != hash
RootNodeRejected(hash, newNode) ==
    newNode.null \/ ~newNode.valid \/ newNode.hash # hash

addRootNode(hash, newNode, filter) ==
    /\ pc = "idle" /\ ~aborted
    /\ IF RootInstalled
       THEN \* assert (root_->getNodeHash () == hash): a checked build stops
            \* here when the hashes differ, an unchecked build goes on
            /\ \/ /\ aborted' = FALSE
                  /\ last' = Returned("addRootNode", 433, "Duplicate", FALSE,
                                       <<>>, hash, newNode, filter)
               \/ /\ root # hash
                  /\ aborted' = TRUE
                  /\ last' = Returned("addRootNode", 432, "abort", FALSE,
                                       <<>>, hash, newNode, filter)
            /\ UNCHANGED <<mapVars, store>>
       ELSE IF RootNodeRejected(hash, newNode)
       THEN /\ last' = Returned("addRootNode", 440, "Invalid", FALSE,
                                 <<>>, hash, newNode, filter)
            /\ UNCHANGED <<mapVars, store, aborted>>
       ELSE /\ store' = IF backed THEN canonicalize(store, hash) ELSE store
            /\ root' = newNode.hash
            /\ state' = IF isLeaf(newNode.hash) THEN clearSynching ELSE state
            /\ last' = Returned("addRootNode", 458, "Useful", filter,
                                 <<>>, hash, newNode, filter)
            /\ UNCHANGED <<backed, childPtr, fullBelowGen, aborted>>
    /\ pc' = "returned"
    /\ UNCHANGED <<fullbelow, cacheGen, gmnVars>>

(***************************************************************************)
(* addKnownNode                                                            *)
(***************************************************************************)
AddResult(r, site, ptrs, st, s, got) ==
    [ret |-> r, site |-> site, childPtr |-> ptrs, store |-> st,
     state |-> s, gotNode |-> got]

\* variant: the hash of the node is not compared with the branch's hash
CorruptNodeHashUnchecked(newNode, childHash) ==
    newNode.null \/ ~newNode.valid

\* !newNode || !newNode->isValid() || childHash != newNode->getNodeHash ()
CorruptNode(newNode, childHash) ==
    newNode.null \/ ~newNode.valid \/ childHash # newNode.hash

\* variant: the common-prefix test for both variants of node
PositionMismatchPrefixOnly(newNode, iNodeID, target) ==
    ~has_common_prefix(iNodeID, target)

\* the position match of the graft point
PositionMismatch(newNode, iNodeID, target) ==
    \/ newNode.v2 /\ ~has_common_prefix(iNodeID, target)
    \/ ~newNode.v2 /\ iNodeID # target

\* variant: the position match before the bounds and consistency checks
GraftPositionFirst(prevNode, branch, childHash, iNodeID, ptrs, target, newNode, filter) ==
    IF CorruptNode(newNode, childHash)
    THEN AddResult("Invalid", 505, ptrs, store, state, FALSE)
    ELSE IF PositionMismatch(newNode, iNodeID, target)
    THEN AddResult("Useful", 530, ptrs, store, state, FALSE)
    ELSE IF ~newNode.inBounds
    THEN AddResult("Useful", 512, ptrs, store, "Invalid", FALSE)
    ELSE IF newNode.inconsistent
    THEN AddResult("Useful", 518, ptrs, store, "Invalid", FALSE)
    ELSE AddResult("Useful", 546,
                   canonicalizeChild(ptrs, prevNode, branch, newNode.hash),
                   IF backed THEN canonicalize(store, childHash) ELSE store,
                   state, filter)

\* the graft point: descend returned a null pointer for branch of prevNode
Graft(prevNode, branch, childHash, iNodeID, ptrs, target, newNode, filter) ==
    IF CorruptNode(newNode, childHash)
    THEN AddResult("Invalid", 505, ptrs, store, state, FALSE)
    ELSE IF ~newNode.inBounds
    THEN AddResult("Useful", 512, ptrs, store, "Invalid", FALSE)
    ELSE IF newNode.inconsistent
    THEN AddResult("Useful", 518, ptrs, store, "Invalid", FALSE)
    ELSE IF PositionMismatch(newNode, iNodeID, target)
    THEN AddResult("Useful", 530, ptrs, store, state, FALSE)
    ELSE AddResult("Useful", 546,
                   canonicalizeChild(ptrs, prevNode, branch, newNode.hash),
                   IF backed THEN canonicalize(store, childHash) ELSE store,
                   state, filter)

\* the loop condition of the walk
WalkContinues(iNode, iNodeID, target) ==
    /\ isInner(iNode)
    /\ ~isFullBelow(iNode, cacheGen)
    /\ getDepth(iNodeID) < getDepth(target)

RECURSIVE Walk(_, _, _, _, _, _)
Walk(iNode, iNodeID, ptrs, target, newNode, filter) ==
    IF ~WalkContinues(iNode, iNodeID, target)
    THEN AddResult("Duplicate", 551, ptrs, store, state, FALSE)
    ELSE
    LET branch == selectBranch(iNodeID, target)
        childHash == getChildHash(iNode, branch)
        have == getChildPointer(ptrs, iNode, branch)
        \* descend(inner, iNodeID, branch, filter)
        fetched == IF have # ZeroHash THEN have ELSE fetchNodeNT(childHash)
        ptrs2 == IF fetched # ZeroHash
                 THEN canonicalizeChild(ptrs, iNode, branch, fetched)
                 ELSE ptrs
        childID == getChildNodeID(iNodeID, branch)
    IN  IF isEmptyBranch(iNode, branch)
        THEN AddResult("Invalid", 490, ptrs, store, state, FALSE)
        ELSE IF touch_if_exists(childHash)
        THEN AddResult("Duplicate", 495, ptrs, store, state, FALSE)
        ELSE IF fetched = ZeroHash
        THEN Graft(iNode, branch, childHash, childID, ptrs, target,
                   newNode, filter)
        ELSE Walk(fetched, childID, ptrs2, target, newNode, filter)

\* variant: the test of the state inverted
AddKnownNodeResultInverted(target, newNode, filter) ==
    IF isSynching
    THEN AddResult("Duplicate", 471, childPtr, store, state, FALSE)
    ELSE Walk(root, <<>>, childPtr, target, newNode, filter)

AddKnownNodeResult(target, newNode, filter) ==
    IF ~isSynching
    THEN AddResult("Duplicate", 471, childPtr, store, state, FALSE)
    ELSE Walk(root, <<>>, childPtr, target, newNode, filter)

addKnownNode(target, newNode, filter) ==
    /\ pc = "idle" /\ ~aborted
    /\ LET r == AddKnownNodeResult(target, newNode, filter)
       IN  /\ childPtr' = r.childPtr
           /\ store' = r.store
           /\ state' = r.state
           /\ last' = Returned("addKnownNode", r.site, r.ret, r.gotNode,
                                target, ZeroHash, newNode, filter)
    /\ pc' = "returned"
    /\ UNCHANGED <<root, backed, fullBelowGen, fullbelow, cacheGen, aborted,
                   gmnVars>>

(***************************************************************************)
(* getMissingNodes.  One step handles one non-empty branch of the current  *)
(* frame (the iterations over empty branches before it only advance        *)
(* currentChild), or finishes the frame; waitReads is the one suspension   *)
(* point, and the loop over the deferred reads after it is one step.       *)
(***************************************************************************)
\* the locals of an outer-loop iteration, at its start
OuterLoop(fc) ==
    /\ deferredReads' = <<>>
    /\ stack' = <<>>
    /\ node' = root
    /\ nodeID' = <<>>
    /\ firstChild' = fc
    /\ currentChild' = 0
    /\ fullBelow' = TRUE

\* the locals are gone once the call has returned
LocalsGone ==
    /\ max' = 0
    /\ generation' = 0
    /\ missingHashes' = {}
    /\ deferredReads' = <<>>
    /\ stack' = <<>>
    /\ node' = ZeroHash
    /\ nodeID' = <<>>
    /\ firstChild' = 0
    /\ currentChild' = 0
    /\ fullBelow' = TRUE
    /\ ret' = <<>>

\* return ret, at the given line
Return(list, site) ==
    /\ pc' = "returned"
    /\ last' = [last EXCEPT !.site = site, !.ret = "list", !.nodes = list]
    /\ LocalsGone

\* assert (root_->getNodeHash().isNonZero ()): the callers' obligation
HaveRoot == root # ZeroHash

getMissingNodes(m) ==
    /\ pc = "idle" /\ ~aborted
    /\ HaveRoot
    /\ IF ~isInner(root)
       THEN /\ state' = IF cacheGen = 0 THEN clearSynching ELSE state
            /\ pc' = "returned"
            /\ last' = [NoCall EXCEPT !.op = "getMissingNodes", !.max = m,
                                      !.pre = state, !.site = 124,
                                      !.ret = "list"]
            /\ UNCHANGED gmnVars
       ELSE IF isFullBelow(root, cacheGen)
       THEN /\ state' = clearSynching
            /\ pc' = "returned"
            /\ last' = [NoCall EXCEPT !.op = "getMissingNodes", !.max = m,
                                      !.pre = state, !.site = 130,
                                      !.ret = "list"]
            /\ UNCHANGED gmnVars
       ELSE /\ \E fc \in FirstChildSamples : OuterLoop(fc)
            /\ generation' = cacheGen
            /\ max' = m
            /\ ret' = <<>>
            /\ missingHashes' = {}
            /\ pc' = "dfs"
            /\ last' = [NoCall EXCEPT !.op = "getMissingNodes", !.max = m,
                                      !.pre = state]
            /\ UNCHANGED state
    /\ UNCHANGED <<root, backed, childPtr, fullBelowGen, envVars, aborted>>

\* (firstChild + currentChild++) % 16
branchAt(c) == (firstChild + c) % BranchCount

\* the value of currentChild at the next non-empty branch of the frame,
\* BranchCount when only empty branches are left
NextChild ==
    LET live == {c \in currentChild .. (BranchCount - 1) :
                     ~isEmptyBranch(node, branchAt(c))}
    IN  IF live = {} THEN BranchCount
        ELSE CHOOSE c \in live : \A d \in live : c <= d

\* variant: missingHashes is not consulted
KnownMissingIgnored(childHash) == FALSE

\* missingHashes.count (childHash) != 0
KnownMissing(childHash) == childHash \in missingHashes

\* variant: the answer of the full-below cache inverted
NotKnownFullBelowOnHit(childHash) == backed /\ touch_if_exists(childHash)

\* ! backed_ || ! f_.fullbelow().touch_if_exists (childHash)
NotKnownFullBelow(childHash) == ~backed \/ ~touch_if_exists(childHash)

\* descendAsync(node, branch, filter, pending): the child in memory; or a
\* node the cache or the filter has at once; or a known miss; or, on a
\* backed map, an asynchronous read
descendAsync(parent, branch) ==
    LET have == getChildPointer(childPtr, parent, branch)
        h == getChildHash(parent, branch)
    IN  IF have # ZeroHash
        THEN {[d |-> have, pending |-> FALSE]}
        ELSE {[d |-> fetchNodeNT(h), pending |-> FALSE]} \cup
             (IF backed THEN {[d |-> ZeroHash, pending |-> TRUE]} ELSE {})

\* --max on std::size_t
Decrement(m) == (m - 1) % SizeModulus

\* variant: the budget counts as used up one entry early
ExhaustedEarly(m) == m <= 1

\* max <= 0 on std::size_t
Exhausted(m) == m <= 0

GMN_KnownMissing ==
    /\ pc = "dfs" /\ NextChild < BranchCount
    /\ KnownMissing(getChildHash(node, branchAt(NextChild)))
    /\ fullBelow' = FALSE
    /\ currentChild' = NextChild + 1
    /\ UNCHANGED <<mapVars, envVars, aborted, pc, max, ret, generation,
                   missingHashes, deferredReads, stack, node, nodeID,
                   firstChild, last>>

GMN_FullBelowHit ==
    /\ pc = "dfs" /\ NextChild < BranchCount
    /\ ~KnownMissing(getChildHash(node, branchAt(NextChild)))
    /\ ~NotKnownFullBelow(getChildHash(node, branchAt(NextChild)))
    /\ currentChild' = NextChild + 1
    /\ UNCHANGED <<mapVars, envVars, aborted, pc, max, ret, generation,
                   missingHashes, deferredReads, stack, node, nodeID,
                   firstChild, fullBelow, last>>

\* the branch is looked up with descendAsync
Prefetches ==
    /\ pc = "dfs" /\ NextChild < BranchCount
    /\ ~KnownMissing(getChildHash(node, branchAt(NextChild)))
    /\ NotKnownFullBelow(getChildHash(node, branchAt(NextChild)))

GMN_Miss ==
    /\ Prefetches
    /\ LET branch == branchAt(NextChild)
           childHash == getChildHash(node, branch)
           childID == getChildNodeID(nodeID, branch)
           found == Append(ret, <<childID, childHash>>)
       IN  /\ [d |-> ZeroHash, pending |-> FALSE] \in descendAsync(node, branch)
           /\ IF Exhausted(Decrement(max))
              THEN Return(found, 192)
              ELSE /\ missingHashes' = missingHashes \cup {childHash}
                   /\ ret' = found
                   /\ max' = Decrement(max)
                   /\ fullBelow' = FALSE
                   /\ currentChild' = NextChild + 1
                   /\ UNCHANGED <<pc, generation, deferredReads, stack, node,
                                  nodeID, firstChild, last>>
    /\ UNCHANGED <<mapVars, envVars, aborted>>

GMN_Pending ==
    /\ Prefetches
    /\ LET branch == branchAt(NextChild)
           childID == getChildNodeID(nodeID, branch)
       IN  /\ [d |-> ZeroHash, pending |-> TRUE] \in descendAsync(node, branch)
           /\ deferredReads' = Append(deferredReads, <<node, branch, childID>>)
    /\ fullBelow' = FALSE
    /\ currentChild' = NextChild + 1
    /\ UNCHANGED <<mapVars, envVars, aborted, pc, max, ret, generation,
                   missingHashes, stack, node, nodeID, firstChild, last>>

\* variant: the test of the child's full-below mark inverted
DescendsInverted(d) == isInner(d) /\ isFullBelow(d, generation)

\* d->isInner() && !isFullBelow(generation): the child is descended into
Descends(d) == isInner(d) /\ ~isFullBelow(d, generation)

GMN_Hit ==
    /\ Prefetches
    /\ \E o \in descendAsync(node, branchAt(NextChild)) :
          /\ o.d # ZeroHash
          /\ ~Descends(o.d)
          /\ childPtr' = canonicalizeChild(childPtr, node,
                                           branchAt(NextChild), o.d)
    /\ currentChild' = NextChild + 1
    /\ UNCHANGED <<root, state, backed, fullBelowGen, envVars, aborted, pc,
                   max, ret, generation, missingHashes, deferredReads, stack,
                   node, nodeID, firstChild, fullBelow, last>>

GMN_Descend ==
    /\ Prefetches
    /\ \E o \in descendAsync(node, branchAt(NextChild)),
          fc \in FirstChildSamples :
          /\ o.d # ZeroHash
          /\ Descends(o.d)
          /\ childPtr' = canonicalizeChild(childPtr, node,
                                           branchAt(NextChild), o.d)
          /\ stack' = Append(stack, [node |-> node, nodeID |-> nodeID,
                                     firstChild |-> firstChild,
                                     currentChild |-> NextChild + 1,
                                     fullBelow |-> fullBelow])
          /\ node' = o.d
          /\ nodeID' = getChildNodeID(nodeID, branchAt(NextChild))
          /\ firstChild' = fc
    /\ currentChild' = 0
    /\ fullBelow' = TRUE
    /\ UNCHANGED <<root, state, backed, fullBelowGen, envVars, aborted, pc,
                   max, ret, generation, missingHashes, deferredReads, last>>

\* if (ret.empty ()) clearSynching ()
NothingMissing(list) == list = <<>>

\* variant: every frame popped is marked full below
MarksFullBelowAlways == TRUE

\* the frame's fullBelow once its branches are done: "No partial node
\* encountered below this node"
MarksFullBelow == fullBelow

\* while ((node != nullptr) && (deferredReads.size () <= maxDefer))
InnerLoopContinues(n, reads) == n # ZeroHash /\ Len(reads) <= MaxDefer

\* the end of a frame: mark, pop; then the test of the inner loop, and past
\* the loop either the return or waitReads
GMN_FrameDone ==
    /\ pc = "dfs" /\ NextChild = BranchCount
    /\ fullBelowGen' = IF MarksFullBelow
                       THEN [fullBelowGen EXCEPT ![node] = generation]
                       ELSE fullBelowGen
    /\ fullbelow' = IF MarksFullBelow /\ backed
                    THEN fullbelow \cup {node}
                    ELSE fullbelow
    /\ LET top == stack[Len(stack)]
           n2 == IF stack = <<>> THEN ZeroHash ELSE top.node
       IN  IF InnerLoopContinues(n2, deferredReads)
           THEN /\ node' = top.node
                /\ nodeID' = top.nodeID
                /\ firstChild' = top.firstChild
                /\ currentChild' = top.currentChild
                /\ fullBelow' = (top.fullBelow /\ fullBelow)
                /\ stack' = SubSeq(stack, 1, Len(stack) - 1)
                /\ UNCHANGED <<state, pc, max, ret, generation, missingHashes,
                               deferredReads, last>>
           ELSE IF deferredReads = <<>>
           THEN /\ state' = IF NothingMissing(ret) THEN clearSynching
                            ELSE state
                /\ Return(ret, 302)
           ELSE /\ pc' = "drain"
                /\ stack' = <<>>
                /\ node' = ZeroHash
                /\ nodeID' = <<>>
                /\ firstChild' = 0
                /\ currentChild' = 0
                /\ fullBelow' = TRUE
                /\ UNCHANGED <<state, max, ret, generation, missingHashes,
                               deferredReads, last>>
    /\ UNCHANGED <<root, backed, childPtr, store, cacheGen, aborted>>

\* variant: a deferred read still absent after waitReads is dropped
RecordsDeferredMissNever(m, mh, nodeHash) == FALSE

\* (max > 0) && (missingHashes.insert (nodeHash).second)
RecordsDeferredMiss(m, mh, nodeHash) == m > 0 /\ nodeHash \notin mh

\* "Process all deferred reads"
RECURSIVE ProcessDeferred(_, _)
ProcessDeferred(reads, acc) ==
    IF reads = <<>> THEN acc
    ELSE LET parent == Head(reads)[1]
             branch == Head(reads)[2]
             deferredNodeID == Head(reads)[3]
             nodeHash == getChildHash(parent, branch)
             nodePtr == fetchNodeNT(nodeHash)
         IN  ProcessDeferred(Tail(reads),
                IF nodePtr # ZeroHash
                THEN [acc EXCEPT
                        !.store = IF backed THEN canonicalize(@, nodeHash)
                                  ELSE @,
                        !.childPtr = canonicalizeChild(@, parent, branch,
                                                       nodePtr)]
                ELSE IF RecordsDeferredMiss(acc.max, acc.missingHashes,
                                            nodeHash)
                THEN [acc EXCEPT
                        !.missingHashes = @ \cup {nodeHash},
                        !.ret = Append(@, <<deferredNodeID, nodeHash>>),
                        !.max = Decrement(@)]
                ELSE acc)

\* waitReads has returned: the deferred reads are processed, and the outer
\* loop returns or starts its next iteration
GMN_Drain ==
    /\ pc = "drain"
    /\ LET after == ProcessDeferred(deferredReads,
                       [store |-> store, childPtr |-> childPtr,
                        missingHashes |-> missingHashes, ret |-> ret,
                        max |-> max])
       IN  /\ store' = after.store
           /\ childPtr' = after.childPtr
           /\ IF Exhausted(after.max)
              THEN Return(after.ret, 295)
              ELSE /\ \E fc \in FirstChildSamples : OuterLoop(fc)
                   /\ missingHashes' = after.missingHashes
                   /\ ret' = after.ret
                   /\ max' = after.max
                   /\ pc' = "dfs"
                   /\ UNCHANGED <<generation, last>>
    /\ UNCHANGED <<root, state, backed, fullBelowGen, fullbelow, cacheGen,
                   aborted>>

\* the caller has taken the result of the call
Resume ==
    /\ pc = "returned"
    /\ pc' = "idle"
    /\ last' = NoCall
    /\ UNCHANGED <<mapVars, envVars, aborted, gmnVars>>

Next ==
    \/ \E h \in StoreHashes : StoreGain(h)
    \/ GenBump
    \/ \E h \in RootHashes, n \in RootNodeInputs, f \in BOOLEAN :
          addRootNode(h, n, f)
    \/ \E t \in Targets, n \in NodeInputs, f \in BOOLEAN :
          addKnownNode(t, n, f)
    \/ \E m \in MaxArgs : getMissingNodes(m)
    \/ GMN_KnownMissing
    \/ GMN_FullBelowHit
    \/ GMN_Miss
    \/ GMN_Pending
    \/ GMN_Hit
    \/ GMN_Descend
    \/ GMN_FrameDone
    \/ GMN_Drain
    \/ Resume

Spec == Init /\ [][Next]_vars

(***************************************************************************)
(* The read-only operations: hasInnerNode, hasLeafNode, getNodeFat,        *)
(* visitNodes, visitDifferences, getFetchPack, deepCompare.  Each is an    *)
(* operator that computes the result of the call as the code does, and an  *)
(* action that applies it to the map.  A map is read through a view: its   *)
(* root, its child pointers and the hashes its descent can fetch.          *)
(***************************************************************************)
MapView(r, ptrs, st) == [null |-> FALSE, root |-> r, ptrs |-> ptrs, store |-> st]

\* a null SHAMap const*
NoMap == [null |-> TRUE, root |-> ZeroHash, ptrs |-> {}, store |-> {}]

\* this map
Self == MapView(root, childPtr, store)

\* descend(parent, branch): the child in memory, or fetched; ZeroHash: null
descend(m, parent, branch) ==
    LET have == getChildPointer(m.ptrs, parent, branch)
        childHash == getChildHash(parent, branch)
    IN  IF have # ZeroHash THEN have
        ELSE IF childHash \in m.store THEN childHash
        ELSE ZeroHash

\* the map once descend has returned d: a fetched node is hooked in
Adopt(m, parent, branch, d) ==
    IF d = ZeroHash THEN m
    ELSE [m EXCEPT !.ptrs = canonicalizeChild(@, parent, branch, d)]

\* what descendThrow does for a non-empty branch whose node cannot be
\* found: it throws SHAMapMissingNode, or it returns the null pointer
AbsentOutcomes == {"throw", "null"}

\* the result of a call that used the pointer descendThrow returned without
\* a test: the exception leaves the call, or the null pointer is
\* dereferenced
Absent(onAbsent, m) ==
    [ret |-> IF onAbsent = "throw" THEN "throw" ELSE "undefined",
     site |-> 0, m |-> m]

Answer(r, site, m) == [ret |-> r, site |-> site, m |-> m]

AsText(b) == IF b THEN "true" ELSE "false"

RECURSIVE hasInnerWalk(_, _, _, _, _, _)
hasInnerWalk(m, n, id, targetNodeID, targetNodeHash, onAbsent) ==
    IF isInner(n) /\ getDepth(id) < getDepth(targetNodeID)
    THEN LET branch == selectBranch(id, targetNodeID)
             d == descend(m, n, branch)
         IN  IF isEmptyBranch(n, branch) THEN Answer("false", 638, m)
             ELSE IF d = ZeroHash THEN Absent(onAbsent, m)
             ELSE hasInnerWalk(Adopt(m, n, branch, d), d,
                               getChildNodeID(id, branch), targetNodeID,
                               targetNodeHash, onAbsent)
    ELSE Answer(AsText(isInner(n) /\ n = targetNodeHash), 644, m)

hasInnerNode(m, targetNodeID, targetNodeHash, onAbsent) ==
    hasInnerWalk(m, m.root, <<>>, targetNodeID, targetNodeHash, onAbsent)

RECURSIVE hasLeafWalk(_, _, _, _, _, _)
hasLeafWalk(m, n, id, tag, targetNodeHash, onAbsent) ==
    LET branch == selectBranch(id, tag)
        d == descend(m, n, branch)
    IN  IF isEmptyBranch(n, branch) THEN Answer("false", 663, m)
        ELSE IF getChildHash(n, branch) = targetNodeHash
        THEN Answer("true", 666, m)
        ELSE IF d = ZeroHash THEN Absent(onAbsent, m)
        ELSE IF isInner(d)
        THEN hasLeafWalk(Adopt(m, n, branch, d), d,
                         getChildNodeID(id, branch), tag, targetNodeHash,
                         onAbsent)
        ELSE Answer("false", 673, Adopt(m, n, branch, d))

hasLeafNode(m, tag, targetNodeHash, onAbsent) ==
    IF ~isInner(m.root)
    THEN Answer(AsText(m.root = targetNodeHash), 656, m)
    ELSE hasLeafWalk(m, m.root, <<>>, tag, targetNodeHash, onAbsent)

(***************************************************************************)
(* What the claims speak of                                                *)
(***************************************************************************)
(***************************************************************************)
(* visitNodes(function).  The visitor is given by the set of nodes it      *)
(* answers true for.  The calls of the visitor are recorded with the       *)
(* position of the node, which the code does not carry.                    *)
(***************************************************************************)
\* variant: the parent is never pushed back
SkipEmptyToEnd(n, pos) == BranchCount - 1

\* while ((pos != 15) && (node->isEmptyBranch (pos + 1))) ++pos
RECURSIVE SkipEmpty(_, _)
SkipEmpty(n, pos) ==
    IF pos # BranchCount - 1 /\ isEmptyBranch(n, pos + 1)
    THEN SkipEmpty(n, pos + 1)
    ELSE pos

\* descendNoStore(node, pos): the child in memory, or fetched
descendNoStore(m, parent, branch) == descend(m, parent, branch)

Visited(calls, site, m) == [ret |-> "void", site |-> site, calls |-> calls, m |-> m]

RECURSIVE visitLoop(_, _, _, _, _, _, _)
visitLoop(m, n, id, pos, stk, calls, stopAt) ==
    IF pos < BranchCount
    THEN IF isEmptyBranch(n, pos)
         THEN visitLoop(m, n, id, pos + 1, stk, calls, stopAt)
         ELSE LET child == descendNoStore(m, n, pos)
                  m2 == Adopt(m, n, pos, child)
                  childID == getChildNodeID(id, pos)
                  calls2 == Append(calls, <<childID, child>>)
                  last15 == SkipEmpty(n, pos)
              IN  IF child = ZeroHash
                  THEN \* *child on a null pointer
                       [ret |-> "undefined", site |-> 68, calls |-> calls,
                        m |-> m]
                  ELSE IF child \in stopAt THEN Visited(calls2, 69, m2)
                  ELSE IF isLeaf(child)
                  THEN visitLoop(m2, n, id, pos + 1, stk, calls2, stopAt)
                  ELSE visitLoop(m2, child, childID, 0,
                                 IF last15 # BranchCount - 1
                                 THEN <<<<last15 + 1, n, id>>>> \o stk
                                 ELSE stk,
                                 calls2, stopAt)
    ELSE IF stk = <<>> THEN Visited(calls, 97, m)
    ELSE visitLoop(m, Head(stk)[2], Head(stk)[3], Head(stk)[1], Tail(stk),
                   calls, stopAt)

visitNodes(m, stopAt) ==
    \* function (*root_): the answer is not looked at
    LET calls == <<<<(<<>>), m.root>>>>
    IN  IF ~isInner(m.root) THEN Visited(calls, 52, m)
        ELSE visitLoop(m, m.root, <<>>, 0, <<>>, calls, stopAt)

(***************************************************************************)
(* getNodeFat(wanted, nodeIDs, rawNodes, fatLeaves, depth)                 *)
(***************************************************************************)
\* inner->getBranchCount()
getBranchCount(h) == Cardinality({b \in Branches : ~isEmptyBranch(h, b)})

\* inner->isEmpty()
isEmpty(h) == getBranchCount(h) = 0

\* node->addRaw(s, format): the serialized node
addRaw(h, format) == [format |-> format, node |-> h]

Fat(r, site, acc) ==
    [ret |-> r, site |-> site, nodeIDs |-> acc.nodeIDs,
     rawNodes |-> acc.rawNodes, m |-> acc.m]

\* variant: a child is pushed one level of depth too late
PushesChildLate(depth, bc) == depth > 2 \/ bc = 1

\* (depth > 1) || (bc == 1): the inner child is pushed, to be expanded
PushesChild(depth, bc) == depth > 1 \/ bc = 1

\* (bc > 1) ? (depth - 1) : depth
NextDepth(depth, bc) == IF bc > 1 THEN depth - 1 ELSE depth

RECURSIVE fatLoop(_, _)
RECURSIVE fatChildren(_, _, _, _, _, _)

\* for (int i = 0; i < 16; ++i) over the children of inner
fatChildren(inner, id, depth, i, acc, c) ==
    IF i >= BranchCount THEN fatLoop(acc, c)
    ELSE IF isEmptyBranch(inner, i)
    THEN fatChildren(inner, id, depth, i + 1, acc, c)
    ELSE LET childNode == descend(acc.m, inner, i)
             childID == getChildNodeID(id, i)
             bc == getBranchCount(inner)
             m2 == Adopt(acc.m, inner, i, childNode)
         IN  IF childNode = ZeroHash
             THEN \* descendThrow throws, or childNode->isInner () on null
                  Fat(IF c.onAbsent = "throw" THEN "throw" ELSE "undefined",
                      387, acc)
             ELSE IF isInner(childNode) /\ PushesChild(depth, bc)
             THEN fatChildren(inner, id, depth, i + 1,
                     [acc EXCEPT !.m = m2,
                                 !.stack = <<<<childNode, childID,
                                              NextDepth(depth, bc)>>>> \o @],
                     c)
             ELSE IF isInner(childNode) \/ c.fatLeaves
             THEN fatChildren(inner, id, depth, i + 1,
                     [acc EXCEPT !.m = m2,
                                 !.nodeIDs = Append(@, childID),
                                 !.rawNodes = Append(@, addRaw(childNode, "wire"))],
                     c)
             ELSE fatChildren(inner, id, depth, i + 1,
                              [acc EXCEPT !.m = m2], c)

\* while (! stack.empty ())
fatLoop(acc, c) ==
    IF acc.stack = <<>> THEN Fat("true", 416, acc)
    ELSE LET n == Head(acc.stack)[1]
             id == Head(acc.stack)[2]
             depth == Head(acc.stack)[3]
             acc2 == [acc EXCEPT !.stack = Tail(@),
                                 !.nodeIDs = Append(@, id),
                                 !.rawNodes = Append(@, addRaw(n, "wire"))]
         IN  IF isInner(n) /\ (depth > 0 \/ getBranchCount(n) = 1)
             THEN fatChildren(n, id, depth, 0, acc2, c)
             ELSE fatLoop(acc2, c)

\* the walk to wanted: the node found and its id, or the answer of the call
RECURSIVE fatFind(_, _, _, _, _)
fatFind(m, n, id, wanted, onAbsent) ==
    \* node && node->isInner () && ...: below the root, ZeroHash is null
    IF (n # ZeroHash \/ id = <<>>) /\ isInner(n)
          /\ getDepth(id) < getDepth(wanted)
    THEN LET branch == selectBranch(id, wanted)
             d == descend(m, n, branch)
         IN  IF isEmptyBranch(n, branch)
             THEN [ret |-> "false", site |-> 334, m |-> m]
             ELSE IF d = ZeroHash /\ onAbsent = "throw"
             THEN [ret |-> "throw", site |-> 336, m |-> m]
             ELSE fatFind(Adopt(m, n, branch, d), d,
                          getChildNodeID(id, branch), wanted, onAbsent)
    ELSE [ret |-> "found", site |-> 341, m |-> m, node |-> n, nodeID |-> id]

getNodeFat(m, wanted, fatLeaves, depth, onAbsent) ==
    LET f == fatFind(m, m.root, <<>>, wanted, onAbsent)
        none == [nodeIDs |-> <<>>, rawNodes |-> <<>>, m |-> f.m]
    IN  IF f.ret # "found" THEN Fat(f.ret, f.site, none)
        ELSE IF f.node = ZeroHash /\ getDepth(f.nodeID) > 0
        THEN Fat("false", 351, none)
        ELSE IF wanted # f.nodeID THEN Fat("false", 351, none)
        ELSE IF isInner(f.node) /\ isEmpty(f.node) THEN Fat("false", 357, none)
        ELSE fatLoop([nodeIDs |-> <<>>, rawNodes |-> <<>>, m |-> f.m,
                      stack |-> <<<<f.node, f.nodeID, depth>>>>],
                     [fatLeaves |-> fatLeaves, onAbsent |-> onAbsent])

(***************************************************************************)
(* visitDifferences(have, func) and getFetchPack(have, includeLeaves, max, *)
(* func).  A visitor is a record: kind "all" never asks to stop; kind      *)
(* "pack" is the lambda of getFetchPack, with its captured max and the     *)
(* calls of the sink made so far.  calls records the calls of the visitor, *)
(* each with the position of the node.                                     *)
(***************************************************************************)
\* the key of the item of a leaf
KeyOf(h) ==
    CASE h = 1 -> <<0, 5, 0>>
      [] h = 2 -> <<15, 15, 0>>
      [] OTHER -> <<6, 0, 0>>

AllVisitor == [kind |-> "all", includeLeaves |-> TRUE, max |-> 0, sunk |-> <<>>]

PackVisitor(includeLeaves, m) ==
    [kind |-> "pack", includeLeaves |-> includeLeaves, max |-> m, sunk |-> <<>>]

\* --max on int
DecrementInt(m) == m - 1

\* --max <= 0: the lambda answers false, the visit stops
PackStops(m) == DecrementInt(m) <= 0

\* func (node): the visitor afterwards, and its answer (FALSE: stop)
CallVisitor(v, h) ==
    IF v.kind = "all" THEN [v |-> v, go |-> TRUE]
    ELSE IF v.includeLeaves \/ isInner(h)
    THEN [v |-> [v EXCEPT !.sunk = Append(@, addRaw(h, "prefix")),
                          !.max = DecrementInt(@)],
          go |-> ~PackStops(v.max)]
    ELSE [v |-> v, go |-> TRUE]

Diff(r, site, acc) ==
    [ret |-> r, site |-> site, calls |-> acc.calls, sunk |-> acc.v.sunk,
     m |-> acc.m]

\* !have || !have->hasInnerNode(childID, childHash), and the same for leaves:
\* the answer of have, "true" / "false" / "throw" / "undefined"
HaveHasInner(have, childID, childHash, onAbsent) ==
    IF have.null THEN "false"
    ELSE hasInnerNode(have, childID, childHash, onAbsent).ret

HaveHasLeaf(have, key, h, onAbsent) ==
    IF have.null THEN "false"
    ELSE hasLeafNode(have, key, h, onAbsent).ret

RECURSIVE diffLoop(_, _)
RECURSIVE diffChildren(_, _, _, _, _)

\* 2) push non-matching child inner nodes
diffChildren(n, id, i, acc, c) ==
    IF i >= BranchCount THEN diffLoop(acc, c)
    ELSE IF isEmptyBranch(n, i) THEN diffChildren(n, id, i + 1, acc, c)
    ELSE LET childHash == getChildHash(n, i)
             childID == getChildNodeID(id, i)
             next == descend(acc.m, n, i)
             acc2 == [acc EXCEPT !.m = Adopt(@, n, i, next)]
             known == IF isInner(next)
                      THEN HaveHasInner(c.have, childID, childHash, c.onAbsent)
                      ELSE HaveHasLeaf(c.have, KeyOf(next), childHash, c.onAbsent)
             called == CallVisitor(acc.v, next)
             acc3 == [acc2 EXCEPT !.v = called.v,
                                  !.calls = Append(@, <<childID, next>>)]
         IN  IF next = ZeroHash
             THEN \* descendThrow throws, or next->isInner () on null
                  Diff(IF c.onAbsent = "throw" THEN "throw" ELSE "undefined",
                       754, acc)
             ELSE IF known \in {"throw", "undefined"}
             THEN Diff(known, IF isInner(next) THEN 758 ELSE 761, acc2)
             ELSE IF known = "true"
             THEN diffChildren(n, id, i + 1, acc2, c)
             ELSE IF isInner(next)
             THEN diffChildren(n, id, i + 1,
                     [acc2 EXCEPT !.stack = <<<<next, childID>>>> \o @], c)
             ELSE IF ~called.go THEN Diff("void", 766, acc3)
             ELSE diffChildren(n, id, i + 1, acc3, c)

\* while (!stack.empty())
diffLoop(acc, c) ==
    IF acc.stack = <<>> THEN Diff("void", 771, acc)
    ELSE LET n == Head(acc.stack)[1]
             id == Head(acc.stack)[2]
             called == CallVisitor(acc.v, n)
             acc2 == [acc EXCEPT !.stack = Tail(@), !.v = called.v,
                                 !.calls = Append(@, <<id, n>>)]
         IN  IF ~called.go THEN Diff("void", 745, acc2)
             ELSE diffChildren(n, id, 0, acc2, c)

\* variant: equal root hashes are not looked at
SameRootSkippedNever(m, have) == FALSE

\* have && (root_->getNodeHash () == have->root_->getNodeHash ())
SameRootSkipped(m, have) == ~have.null /\ m.root = have.root

visitDifferences(m, have, v, onAbsent) ==
    LET acc == [m |-> m, v |-> v, calls |-> <<>>, stack |-> <<>>]
        known == HaveHasLeaf(have, KeyOf(m.root), m.root, onAbsent)
        called == CallVisitor(v, m.root)
    IN  IF m.root = ZeroHash THEN Diff("void", 717, acc)
        ELSE IF SameRootSkipped(m, have) THEN Diff("void", 720, acc)
        ELSE IF isLeaf(m.root)
        THEN IF known \in {"throw", "undefined"} THEN Diff(known, 725, acc)
             ELSE IF known = "true" THEN Diff("void", 728, acc)
             ELSE Diff("void", 728,
                       [acc EXCEPT !.v = called.v,
                                   !.calls = <<<<(<<>>), m.root>>>>])
        ELSE diffLoop([acc EXCEPT !.stack = <<<<m.root, (<<>>)>>>>],
                      [have |-> have, onAbsent |-> onAbsent])

\* have != nullptr && have->is_v2() != is_v2() does not arise: no map of the
\* model is a v2 map
getFetchPack(m, have, includeLeaves, mx, onAbsent) ==
    visitDifferences(m, have, PackVisitor(includeLeaves, mx), onAbsent)

(***************************************************************************)
(* deepCompare(other).  other is this map itself, or another map.          *)
(***************************************************************************)
Compared(r, site, acc) == [ret |-> r, site |-> site, m |-> acc.m]

\* variant: the pointers descend returned are not tested
UnfetchedIgnored(next, otherNext) == FALSE

\* !next || !otherNext
Unfetched(next, otherNext) == next = ZeroHash \/ otherNext = ZeroHash

RECURSIVE compareLoop(_, _)
RECURSIVE compareChildren(_, _, _, _, _)

compareChildren(n, otherNode, i, acc, c) ==
    IF i >= BranchCount THEN compareLoop(acc, c)
    ELSE IF isEmptyBranch(n, i)
    THEN IF ~isEmptyBranch(otherNode, i) THEN Compared("false", 601, acc)
         ELSE compareChildren(n, otherNode, i + 1, acc, c)
    ELSE IF isEmptyBranch(otherNode, i) THEN Compared("false", 606, acc)
    ELSE LET next == descend(acc.m, n, i)
             m2 == Adopt(acc.m, n, i, next)
             otherMap == IF c.self THEN m2 ELSE c.other
             otherNext == descend(otherMap, otherNode, i)
             acc2 == [acc EXCEPT !.m = m2]
         IN  IF Unfetched(next, otherNext)
             THEN Compared("false", 613, acc2)
             ELSE compareChildren(n, otherNode, i + 1,
                     [acc2 EXCEPT !.stack = <<<<next, otherNext>>>> \o @], c)

compareLoop(acc, c) ==
    IF acc.stack = <<>> THEN Compared("true", 621, acc)
    ELSE LET n == Head(acc.stack)[1]
             otherNode == Head(acc.stack)[2]
             acc2 == [acc EXCEPT !.stack = Tail(@)]
         IN  IF otherNode # n THEN Compared("false", 576, acc2)
             ELSE IF isLeaf(n)
             THEN \* equal hashes: the same item, key and data
                  compareLoop(acc2, c)
             ELSE compareChildren(n, otherNode, 0, acc2, c)

deepCompare(m, other, self) ==
    compareLoop([m |-> m, stack |-> <<<<m.root, IF self THEN m.root ELSE other.root>>>>],
                [other |-> other, self |-> self])

(***************************************************************************)
(* The read-only operations as steps of a map, and the maps they are       *)
(* applied to: every root of ReadRoots with every set of child pointers    *)
(* that grafting from the root downwards can have installed.               *)
(***************************************************************************)
\* largest depth handed to getNodeFat
MaxDepth == 2

\* largest max handed to getFetchPack, besides Unlimited
MaxPack == 2

\* a max no pack of the model reaches
Unlimited == BranchCount * BranchCount

RECURSIVE EdgesBelow(_)
EdgesBelow(h) ==
    UNION {{<<h, b, getChildHash(h, b)>>} \cup EdgesBelow(getChildHash(h, b)) :
              b \in {x \in Branches : ~isEmptyBranch(h, x)}}

\* a fully resident, unbacked map with root r
FullMap(r) == MapView(r, EdgesBelow(r), {})

ResidentPatterns(r) ==
    {P \in SUBSET EdgesBelow(r) :
        \A t \in P : t[1] = r \/ \E u \in P : u[3] = t[1]}

HaveMaps ==
    {NoMap, FullMap(4), FullMap(7), FullMap(6), FullMap(8),
     MapView(4, {}, {}), MapView(4, {<<4, 0, 3>>, <<3, 5, 1>>}, {})}

OtherMaps == {FullMap(4), FullMap(7)}

ReadIds == {<<>>, <<0>>, <<15>>, <<0, 5>>, <<15, 15>>, <<1>>}

StopSets == {{}} \cup {{h} : h \in Hashes}

InitRead ==
    /\ root \in ReadRoots
    /\ backed \in BOOLEAN
    /\ childPtr \in ResidentPatterns(root)
    /\ state \in IF childPtr = EdgesBelow(root) THEN {"Synching", "Valid"}
                 ELSE {"Synching"}
    /\ fullBelowGen = [h \in InnerHashes |-> 0]
    /\ store = IF root # ZeroHash /\ backed
               THEN {root} \cup {t[3] : t \in childPtr} ELSE {}
    /\ fullbelow = {}
    /\ cacheGen = 1
    /\ aborted = FALSE
    /\ pc = "idle"
    /\ max = 0
    /\ ret = <<>>
    /\ generation = 0
    /\ missingHashes = {}
    /\ deferredReads = <<>>
    /\ stack = <<>>
    /\ node = ZeroHash
    /\ nodeID = <<>>
    /\ firstChild = 0
    /\ currentChild = 0
    /\ fullBelow = TRUE
    /\ last = NoCall

\* a read-only call has run: its result is in last; descend may have hooked
\* fetched nodes into the tree
ReadCall(op, arg, res, out) ==
    /\ pc = "idle" /\ ~aborted
    /\ childPtr' = res.m.ptrs
    /\ pc' = "returned"
    /\ last' = [NoCall EXCEPT !.op = op, !.ret = res.ret, !.site = res.site,
                              !.pre = state, !.arg = arg, !.out = out]
    /\ UNCHANGED <<root, state, backed, fullBelowGen, envVars, aborted,
                   gmnVars>>

hasInnerNodeCall(targetNodeID, targetNodeHash) ==
    \E onAbsent \in AbsentOutcomes :
        ReadCall("hasInnerNode",
                 [id |-> targetNodeID, hash |-> targetNodeHash],
                 hasInnerNode(Self, targetNodeID, targetNodeHash, onAbsent),
                 <<>>)

hasLeafNodeCall(tag, targetNodeHash) ==
    \E onAbsent \in AbsentOutcomes :
        ReadCall("hasLeafNode", [tag |-> tag, hash |-> targetNodeHash],
                 hasLeafNode(Self, tag, targetNodeHash, onAbsent), <<>>)

getNodeFatCall(wanted, fatLeaves, depth) ==
    \E onAbsent \in AbsentOutcomes :
        LET res == getNodeFat(Self, wanted, fatLeaves, depth, onAbsent)
        IN  ReadCall("getNodeFat",
                     [wanted |-> wanted, fatLeaves |-> fatLeaves,
                      depth |-> depth],
                     res,
                     [nodeIDs |-> res.nodeIDs, rawNodes |-> res.rawNodes])

visitNodesCall(stopAt) ==
    LET res == visitNodes(Self, stopAt)
    IN  ReadCall("visitNodes", [stopAt |-> stopAt], res,
                 [calls |-> res.calls])

visitDifferencesCall(have) ==
    \E onAbsent \in AbsentOutcomes :
        LET res == visitDifferences(Self, have, AllVisitor, onAbsent)
        IN  ReadCall("visitDifferences", [have |-> have], res,
                     [calls |-> res.calls])

getFetchPackCall(have, includeLeaves, mx) ==
    \E onAbsent \in AbsentOutcomes :
        LET res == getFetchPack(Self, have, includeLeaves, mx, onAbsent)
        IN  ReadCall("getFetchPack",
                     [have |-> have, includeLeaves |-> includeLeaves,
                      max |-> mx],
                     res, [calls |-> res.calls, sunk |-> res.sunk])

deepCompareCall(other, self) ==
    ReadCall("deepCompare", [other |-> other, self |-> self],
             deepCompare(Self, other, self), <<>>)

NextRead ==
    \/ \E id \in ReadIds, h \in {3, 4, 5} : hasInnerNodeCall(id, h)
    \/ \E h \in {1, 2} : hasLeafNodeCall(KeyOf(h), h)
    \/ \E id \in ReadIds, f \in BOOLEAN, d \in 0 .. MaxDepth :
          getNodeFatCall(id, f, d)
    \/ \E st \in StopSets : visitNodesCall(st)
    \/ \E have \in HaveMaps : visitDifferencesCall(have)
    \/ \E have \in HaveMaps, f \in BOOLEAN,
          mx \in (0 .. MaxPack) \cup {Unlimited} :
          getFetchPackCall(have, f, mx)
    \/ deepCompareCall(NoMap, TRUE)
    \/ \E other \in OtherMaps : deepCompareCall(other, FALSE)
    \/ Resume

SpecRead == InitRead /\ [][NextRead]_vars

NonEmptyBranches(h) == {b \in Branches : ~isEmptyBranch(h, b)}

\* the node under a branch is resident: in memory, or the store has it
Resident(parent, branch) ==
    \/ getChildPointer(childPtr, parent, branch) # ZeroHash
    \/ getChildHash(parent, branch) \in store

\* the node under a resident branch
ChildNode(parent, branch) ==
    IF getChildPointer(childPtr, parent, branch) # ZeroHash
    THEN getChildPointer(childPtr, parent, branch)
    ELSE getChildHash(parent, branch)

\* the child hashes of the non-empty branches that are reachable from h
\* through resident inner nodes and have no resident node
RECURSIVE MissingBelow(_)
MissingBelow(h) ==
    IF ~isInner(h) THEN {}
    ELSE UNION {IF Resident(h, b) THEN MissingBelow(ChildNode(h, b))
                ELSE {getChildHash(h, b)} : b \in NonEmptyBranches(h)}

AllResident == MissingBelow(root) = {}

\* a call of getMissingNodes has just returned
ScanReturned == pc = "returned" /\ last.op = "getMissingNodes"

(***************************************************************************)
(* C1: the list returned by one getMissingNodes(max, filter) call has at   *)
(* most max entries, for every max >= 0.                                   *)
(***************************************************************************)
C1_AtMostMax == ScanReturned => Len(last.nodes) <= last.max

C3_ValidIffResident ==
    (ScanReturned /\ last.pre = "Synching" /\ isInner(root) /\ last.max >= 1)
        => /\ (state = "Valid") <=> AllResident
           /\ state = "Valid" => fullBelowGen[root] = cacheGen
           /\ ~AllResident => state = "Synching"

\* a scan found the whole three-level tree resident and marked the map Valid
C3_Witness ==
    /\ ScanReturned /\ last.pre = "Synching" /\ last.max >= 1
    /\ root = 4 /\ last.site = 302
    /\ state = "Valid" /\ AllResident
    /\ fullBelowGen[root] = cacheGen

(***************************************************************************)
(* C4: Invalid is sticky: once the state is Invalid no later call changes  *)
(* it.                                                                     *)
(***************************************************************************)
C4_InvalidSticky == [][state = "Invalid" => state' = "Invalid"]_vars

(***************************************************************************)
(* The graft point of a call of addKnownNode, as the claims describe it:   *)
(* the first branch without a resident node on the way from the root to    *)
(* target.  NoGraft when the way ends before (an empty branch, a subtree   *)
(* known full below, the depth of target, a leaf).                         *)
(***************************************************************************)
NoGraft == [parent |-> ZeroHash, branch |-> 0, id |-> <<>>, hash |-> ZeroHash]

RECURSIVE GraftFrom(_, _, _)
GraftFrom(h, d, target) ==
    IF ~isInner(h) \/ fullBelowGen[h] = cacheGen \/ d >= Len(target)
    THEN NoGraft
    ELSE LET b == target[d + 1]
         IN  IF isEmptyBranch(h, b) \/ getChildHash(h, b) \in fullbelow
             THEN NoGraft
             ELSE IF Resident(h, b)
             THEN GraftFrom(ChildNode(h, b), d + 1, target)
             ELSE [parent |-> h, branch |-> b,
                   id |-> SubSeq(target, 1, d + 1),
                   hash |-> getChildHash(h, b)]

GraftPoint(target) == GraftFrom(root, 0, target)

\* a step that is a call of addKnownNode on a map in state Synching
GraftCall == pc = "idle" /\ last'.op = "addKnownNode" /\ state = "Synching"

\* the raw node decodes to a valid node with the hash the graft point expects
HashAccepted(n, g) == ~n.null /\ n.valid /\ n.hash = g.hash

\* the slot of the graft point holds no pointer after the step
SlotStaysEmpty(g) == getChildPointer(childPtr', g.parent, g.branch) = ZeroHash

(***************************************************************************)
(* C5: addKnownNode never installs a node whose hash differs from the      *)
(* child hash its parent records: at the graft point a raw node that does  *)
(* not decode, is not valid or has another hash makes the call return      *)
(* Invalid, install nothing and leave the state Synching; and every child  *)
(* pointer holds a node with the hash recorded for its branch.             *)
(***************************************************************************)
C5_PointersMatch == \A t \in childPtr : t[3] = getChildHash(t[1], t[2])

C5_CorruptStep ==
    GraftCall =>
        LET g == GraftPoint(last'.target)
        IN  (g # NoGraft /\ ~HashAccepted(last'.newNode, g)) =>
                /\ last'.ret = "Invalid"
                /\ SlotStaysEmpty(g)
                /\ store' = store
                /\ state' = "Synching"

C5_NoCorruptInstall == [][C5_CorruptStep]_vars /\ []C5_PointersMatch

\* a raw node with a wrong hash was refused at a graft point
C5_Witness ==
    /\ pc = "returned" /\ last.op = "addKnownNode"
    /\ last.site = 505 /\ last.ret = "Invalid"
    /\ ~last.newNode.null /\ last.newNode.valid
    /\ state = "Synching"

(***************************************************************************)
(* C6: at the graft point a node with the expected hash that is out of     *)
(* bounds, or inconsistent, sets the state to Invalid and returns Useful   *)
(* without installing anything, also when target is not the graft          *)
(* position (the position match comes last).                               *)
(***************************************************************************)
C6_ProvablyInvalidStep ==
    GraftCall =>
        LET g == GraftPoint(last'.target)
            n == last'.newNode
        IN  (g # NoGraft /\ HashAccepted(n, g)
                /\ (~n.inBounds \/ n.inconsistent)) =>
                /\ last'.ret = "Useful"
                /\ state' = "Invalid"
                /\ SlotStaysEmpty(g)
                /\ store' = store
                /\ ~last'.gotNode

C6_ChecksInOrder == [][C6_ProvablyInvalidStep]_vars

\* an out-of-bounds node with the expected hash of the branch <<0>>, handed
\* in for a position below it: Invalid, not "unable to hook"
C6_Witness ==
    /\ pc = "returned" /\ last.op = "addKnownNode"
    /\ last.site = 512 /\ last.ret = "Useful"
    /\ state = "Invalid" /\ last.pre = "Synching"
    /\ Len(last.target) = 2
    /\ last.newNode.hash = getChildHash(root, last.target[1])
    /\ getChildPointer(childPtr, root, last.target[1]) = ZeroHash

(***************************************************************************)
(* C7: misrouting leaves the map untouched: a node with the expected hash, *)
(* in bounds and consistent, whose graft position does not match target    *)
(* (equality for a fixed-depth node, common prefix for a versioned one)    *)
(* makes the call return Useful; the slot stays empty, the state stays     *)
(* Synching, the store is unchanged and gotNode is not called.             *)
(***************************************************************************)
C7_MisroutedStep ==
    GraftCall =>
        LET g == GraftPoint(last'.target)
            n == last'.newNode
            t == last'.target
        IN  (g # NoGraft /\ HashAccepted(n, g)
                /\ n.inBounds /\ ~n.inconsistent
                /\ \/ n.v2 /\ ~has_common_prefix(g.id, t)
                   \/ ~n.v2 /\ g.id # t) =>
                /\ last'.ret = "Useful"
                /\ SlotStaysEmpty(g)
                /\ state' = "Synching"
                /\ store' = store
                /\ ~last'.gotNode

C7_MisroutingNoEffect == [][C7_MisroutedStep]_vars

\* a good node was handed in, with a filter, for a position below its own
C7_Witness ==
    /\ pc = "returned" /\ last.op = "addKnownNode"
    /\ last.site = 530 /\ last.ret = "Useful" /\ last.filter
    /\ state = "Synching"
    /\ last.newNode = GoodNode(getChildHash(root, last.target[1]))
    /\ getChildPointer(childPtr, root, last.target[1]) = ZeroHash

(***************************************************************************)
(* The scenario of C8: the map had no resident node, addRootNode installed *)
(* an inner root, and the first k nodes of the tree in DFS pre-order were  *)
(* fed to addKnownNode.                                                    *)
(***************************************************************************)
RECURSIVE PreOrderBelow(_, _, _)
PreOrderBelow(h, id, b) ==
    IF ~isInner(h) \/ b >= BranchCount THEN <<>>
    ELSE IF isEmptyBranch(h, b) THEN PreOrderBelow(h, id, b + 1)
    ELSE <<Append(id, b)>>
            \o PreOrderBelow(getChildHash(h, b), Append(id, b), 0)
            \o PreOrderBelow(h, id, b + 1)

\* the pre-order of the tree below each root, computed once
PreOrderOf == [r \in DOMAIN Universe |-> PreOrderBelow(r, <<>>, 0)]

PreOrder == PreOrderOf[root]

RECURSIVE HashBelow(_, _)
HashBelow(h, id) ==
    IF id = <<>> THEN h ELSE HashBelow(getChildHash(h, Head(id)), Tail(id))

\* the hash of the node at a position of the tree
HashAt(id) == HashBelow(root, id)

ParentAt(id) == HashAt(SubSeq(id, 1, Len(id) - 1))

InstalledIn(ptrs, id) ==
    getChildPointer(ptrs, ParentAt(id), id[Len(id)]) = HashAt(id)

\* how many nodes of the pre-order are installed
FedCount ==
    Cardinality({i \in 1 .. Len(PreOrder) : InstalledIn(childPtr, PreOrder[i])})

FedState(k) ==
    /\ \A i \in 1 .. Len(PreOrder) : InstalledIn(childPtr, PreOrder[i]) <=> i <= k
    /\ store = IF backed THEN {root} \cup {HashAt(PreOrder[i]) : i \in 1 .. k}
               ELSE {}
    /\ \A h \in InnerHashes : fullBelowGen[h] = 0
    /\ fullbelow = {}

\* a step that feeds a node of the tree, with its true position and bytes,
\* to addKnownNode on a map with an inner root in state Synching
FeedCall ==
    /\ pc = "idle" /\ last'.op = "addKnownNode"
    /\ root # ZeroHash /\ isInner(root) /\ state = "Synching"
    /\ last'.newNode = GoodNode(HashAt(last'.target))

\* the position fed is the next one of the pre-order
FeedsNext(k) == k < Len(PreOrder) /\ last'.target = PreOrder[k + 1]

\* the position fed is one of the first k of the pre-order
FeedsAgain(k) == \E i \in 1 .. k : last'.target = PreOrder[i]

\* feeding an installed node again: Duplicate, nothing changes
C8_FedAgain ==
    (FeedCall /\ FedState(FedCount) /\ FeedsAgain(FedCount)) =>
        /\ last'.ret = "Duplicate"
        /\ UNCHANGED <<mapVars, envVars>>

(***************************************************************************)
(* C8, as claimed: every node fed in DFS pre-order returns Useful and is   *)
(* installed; an installed node fed again returns Duplicate and changes    *)
(* nothing.                                                                *)
(***************************************************************************)
C8_FedInOrderOriginal ==
    (FeedCall /\ FedState(FedCount) /\ FeedsNext(FedCount)) =>
        /\ last'.ret = "Useful"
        /\ InstalledIn(childPtr', last'.target)

C8_HookGraftOriginal == [][C8_FedInOrderOriginal /\ C8_FedAgain]_vars

(***************************************************************************)
(* C8, amended: every node fed in DFS pre-order (in bounds, consistent) is *)
(* installed and the state stays Synching; the call returns Useful, except *)
(* that on a backed map a node whose hash was already fed at an earlier    *)
(* position returns Duplicate (the descent finds it in the store).  An     *)
(* installed node fed again returns Duplicate and changes nothing.         *)
(***************************************************************************)
C8_FedInOrder ==
    (FeedCall /\ FedState(FedCount) /\ FeedsNext(FedCount)) =>
        /\ last'.ret = IF HashAt(last'.target) \in store
                       THEN "Duplicate" ELSE "Useful"
        /\ HashAt(last'.target) \in store => backed
        /\ InstalledIn(childPtr', last'.target)
        /\ state' = "Synching"

C8_HookGraft == [][C8_FedInOrder /\ C8_FedAgain]_vars

\* the last node of the tree in pre-order has just been installed
C8_Witness ==
    /\ pc = "returned" /\ last.op = "addKnownNode" /\ last.ret = "Useful"
    /\ root # ZeroHash /\ isInner(root) /\ state = "Synching"
    /\ FedState(Len(PreOrder))
    /\ last.target = PreOrder[Len(PreOrder)]

\* step of addRootNode on a map whose root has a nonzero hash
RootCallOnInstalled ==
    pc = "idle" /\ last'.op = "addRootNode" /\ root # ZeroHash

C10_LeafRootValid ==
    (ScanReturned /\ root # ZeroHash /\ isLeaf(root))
        => last.nodes = <<>> /\ state = "Valid"

\* the hashes of a list of <<node id, hash>> entries
HashesOf(list) == {list[i][2] : i \in 1 .. Len(list)}

NoHashTwice(list) == Cardinality(HashesOf(list)) = Len(list)

(***************************************************************************)
(* C11: no hash appears twice in the list a call of getMissingNodes        *)
(* returns (nor in the list it has built so far), also when a child hash   *)
(* sits under several branches and is found as an immediate miss and as a  *)
(* deferred read still absent after waitReads, across the iterations of    *)
(* the outer loop.                                                         *)
(***************************************************************************)
C11_NoHashTwice ==
    /\ ScanReturned => NoHashTwice(last.nodes)
    /\ pc \in {"dfs", "drain"} => NoHashTwice(ret) /\ HashesOf(ret) \subseteq missingHashes

\* the leaf 1, under two branches of the resident node 3, is missing and
\* the list of a scan of a backed map (reads may be deferred) names it
C11_Witness ==
    /\ ScanReturned /\ backed /\ root = 4
    /\ Resident(root, 0)
    /\ ~Resident(3, 5) /\ ~Resident(3, 7)
    /\ getChildHash(3, 5) = getChildHash(3, 7)
    /\ getChildHash(3, 5) \in HashesOf(last.nodes)
    /\ last.max >= 2 /\ last.site = 302

(***************************************************************************)
(* C20: full-below soundness: every inner node whose fullBelowGen equals   *)
(* the current generation, and every hash in the full-below cache, has all *)
(* of its descendants resident.                                            *)
(***************************************************************************)
C20_FullBelowSound ==
    /\ \A h \in InnerHashes : fullBelowGen[h] = cacheGen => MissingBelow(h) = {}
    /\ \A h \in fullbelow : MissingBelow(h) = {}

\* the subtree under branch 0 is proven full below and cached, while a node
\* under branch 15 is still missing and the root is not marked
C20_Witness ==
    /\ root = 4 /\ backed
    /\ fullBelowGen[3] = cacheGen /\ 3 \in fullbelow
    /\ fullBelowGen[root] # cacheGen
    /\ ~AllResident /\ state = "Synching"

(***************************************************************************)
(* The terms of the claims about the read-only operations.                 *)
(***************************************************************************)
\* a call of the read-only operation op has just ended
ReadReturned(op) == pc = "returned" /\ last.op = op

\* the positions of the nodes of the tree, the root included
AllPositions == {<<>>} \cup {PreOrder[i] : i \in 1 .. Len(PreOrder)}

\* a map handed in as have or other is fully resident
FullyResident(m) == ~m.null /\ m.ptrs = EdgesBelow(m.root)

RECURSIVE Height(_)
Height(h) ==
    IF ~isInner(h) \/ isEmpty(h) THEN 0
    ELSE 1 + CHOOSE k \in 0 .. BranchCount :
                 /\ \E b \in Branches :
                       ~isEmptyBranch(h, b) /\ Height(getChildHash(h, b)) = k
                 /\ \A b \in Branches :
                       ~isEmptyBranch(h, b) => Height(getChildHash(h, b)) <= k

\* id is a proper prefix of other: an ancestor's position
IsAncestor(id, other) == Len(id) < Len(other) /\ SubSeq(other, 1, Len(id)) = id

\* a list of <<position, node>> names every node of the tree exactly once
EveryNodeOnce(list) ==
    /\ {list[i][1] : i \in 1 .. Len(list)} = AllPositions
    /\ Len(list) = Cardinality(AllPositions)
    /\ \A i \in 1 .. Len(list) : list[i][2] = HashAt(list[i][1])

(***************************************************************************)
(* C12: getFetchPack(have, includeLeaves, max, sink) invokes sink at most  *)
(* max times, for every max >= 0.                                          *)
(***************************************************************************)
C12_SinkAtMostMax ==
    ReadReturned("getFetchPack") => Len(last.out.sunk) <= last.arg.max

(***************************************************************************)
(* C13: for a fully resident map A and a partially resident map B with the *)
(* same root hash, the nodes A.getFetchPack(B, true, unbounded, sink)      *)
(* produces complete B: every node B lacks is passed to the sink.          *)
(***************************************************************************)
C13_PackCompletesHave ==
    (/\ ReadReturned("getFetchPack")
     /\ AllResident
     /\ ~last.arg.have.null /\ last.arg.have.root = root
     /\ last.arg.includeLeaves /\ last.arg.max = Unlimited)
    => \A t \in EdgesBelow(root) \ last.arg.have.ptrs :
          \E i \in 1 .. Len(last.out.sunk) : last.out.sunk[i].node = t[3]

\* have contains the node at position id of this map
HaveContains(have, id) ==
    /\ ~have.null
    /\ IF isInner(HashAt(id))
       THEN hasInnerNode(have, id, HashAt(id), "throw").ret = "true"
       ELSE hasLeafNode(have, KeyOf(HashAt(id)), HashAt(id), "throw").ret = "true"

(***************************************************************************)
(* C14: with both maps fully resident and a visitor that never asks to     *)
(* stop, visitDifferences(have, fn) invokes fn exactly on the nodes of     *)
(* this map that have does not contain, each once; with a have of the same *)
(* root hash nothing is emitted, by visitDifferences and by getFetchPack.  *)
(***************************************************************************)
C14_ExactDifference ==
    /\ (/\ ReadReturned("visitDifferences")
        /\ root # ZeroHash /\ AllResident
        /\ last.arg.have.null \/ FullyResident(last.arg.have))
       => LET calls == last.out.calls
          IN  /\ last.ret = "void"
              /\ {calls[i] : i \in 1 .. Len(calls)} =
                    {<<id, HashAt(id)>> : id \in
                        {p \in AllPositions : ~HaveContains(last.arg.have, p)}}
              /\ \A i, j \in 1 .. Len(calls) : calls[i][1] = calls[j][1] => i = j
              /\ last.arg.have.root = root /\ ~last.arg.have.null => calls = <<>>
    /\ (/\ ReadReturned("getFetchPack")
        /\ ~last.arg.have.null /\ last.arg.have.root = root)
       => last.out.sunk = <<>> /\ last.out.calls = <<>>

\* the difference of the tree 7 against the tree 4, which shares a subtree
\* with it and holds its leaf one level lower: the root alone
C14_Witness ==
    /\ ReadReturned("visitDifferences")
    /\ root = 7 /\ AllResident
    /\ last.arg.have = FullMap(4)
    /\ last.out.calls = <<<<(<<>>), 7>>>>

(***************************************************************************)
(* C15, as claimed: deepCompare(self) returns true in every state of the   *)
(* map, also when a non-empty branch has no resident node.                 *)
(***************************************************************************)
C15_SelfCompareTrue ==
    (ReadReturned("deepCompare") /\ last.arg.self) => last.ret = "true"

(***************************************************************************)
(* C15, amended: deepCompare(self) returns true exactly when every node of *)
(* the tree is resident (in memory or fetched by descend); when a          *)
(* non-empty branch has no resident node it returns false.                 *)
(***************************************************************************)
C15_SelfCompareIffResident ==
    (ReadReturned("deepCompare") /\ last.arg.self)
        => /\ last.ret \in {"true", "false"}
           /\ last.ret = "true" <=> AllResident

\* a map in state Synching with some nodes in memory and some missing
C15_Witness ==
    /\ ReadReturned("deepCompare") /\ last.arg.self
    /\ state = "Synching" /\ isInner(root)
    /\ childPtr # {} /\ ~AllResident
    /\ last.ret = "false" /\ last.site = 613

(***************************************************************************)
(* C16: on a fully resident tree with a non-empty root,                    *)
(* getNodeFat(rootId, fatLeaves = true, depth >= height) returns true and  *)
(* its output names every node of the tree exactly once; nodeIDs and       *)
(* rawNodes have the same length and entry i of both is the same node.     *)
(***************************************************************************)
C16_FatEnumeratesTree ==
    (/\ ReadReturned("getNodeFat")
     /\ root # ZeroHash /\ AllResident
     /\ last.arg.wanted = <<>> /\ last.arg.fatLeaves
     /\ last.arg.depth >= Height(root))
    => /\ last.ret = "true"
       /\ Len(last.out.nodeIDs) = Len(last.out.rawNodes)
       /\ EveryNodeOnce([i \in 1 .. Len(last.out.nodeIDs) |->
                            <<last.out.nodeIDs[i], last.out.rawNodes[i].node>>])
       /\ \A i \in 1 .. Len(last.out.rawNodes) :
             last.out.rawNodes[i] = addRaw(HashAt(last.out.nodeIDs[i]), "wire")

\* the three-level tree with a fan-out root, a fan-out child and a
\* single-child child, asked for with the depth of its height
C16_Witness ==
    /\ ReadReturned("getNodeFat")
    /\ root = 4 /\ AllResident
    /\ last.arg.wanted = <<>> /\ last.arg.fatLeaves
    /\ last.arg.depth = Height(root)
    /\ Len(last.out.nodeIDs) = 6 /\ last.ret = "true"

(***************************************************************************)
(* C17: in visitNodes(fn), as soon as fn returns true for any node, the    *)
(* root included, fn is not invoked on any further node.                   *)
(***************************************************************************)
C17_StopsAtTrue ==
    ReadReturned("visitNodes")
        => \A i \in 1 .. (Len(last.out.calls) - 1) :
              last.out.calls[i][2] \notin last.arg.stopAt

(***************************************************************************)
(* C18: on a fully resident tree and with fn always returning false,       *)
(* visitNodes(fn) invokes fn exactly once on every node, the root          *)
(* included, and on every inner node before any of its descendants.        *)
(***************************************************************************)
C18_VisitsAllPreOrder ==
    (ReadReturned("visitNodes") /\ last.arg.stopAt = {} /\ AllResident)
    => LET calls == last.out.calls
       IN  /\ last.ret = "void"
           /\ EveryNodeOnce(calls)
           /\ \A i, j \in 1 .. Len(calls) :
                 IsAncestor(calls[i][1], calls[j][1]) => i < j

\* the tree 9: its inner child in branch 0 is followed by empty branches
\* only, so that the root's frame is not pushed back on the stack
C18_Witness ==
    /\ ReadReturned("visitNodes") /\ last.arg.stopAt = {}
    /\ root = 9 /\ AllResident
    /\ last.out.calls =
          <<<<(<<>>), 9>>, <<(<<0>>), 3>>, <<(<<0, 5>>), 1>>, <<(<<0, 7>>), 1>>>>

(***************************************************************************)
(* C19: absence is never raised out of band: getNodeFat, hasInnerNode,     *)
(* hasLeafNode, visitDifferences and getFetchPack each end with an         *)
(* ordinary result value when their walk reaches a non-resident branch.    *)
(***************************************************************************)
C19_AbsenceIsAValue ==
    (pc = "returned" /\ last.op \in {"getNodeFat", "hasInnerNode",
                                     "hasLeafNode", "visitDifferences",
                                     "getFetchPack"})
        => last.ret \in {"true", "false", "void"}

(***************************************************************************)
(* The terms of the claims about the course of a scan.                     *)
(***************************************************************************)
\* the <<position, hash>> pairs of the non-empty branches below the node h
\* at position id that are reached through resident inner nodes and have
\* no resident node
RECURSIVE MissingPairs(_, _)
MissingPairs(h, id) ==
    IF ~isInner(h) THEN {}
    ELSE UNION {IF Resident(h, b)
                THEN MissingPairs(ChildNode(h, b), getChildNodeID(id, b))
                ELSE {<<getChildNodeID(id, b), getChildHash(h, b)>>} :
                b \in NonEmptyBranches(h)}

(***************************************************************************)
(* C21: when max is larger than the number of distinct missing hashes, the *)
(* hashes getMissingNodes returns are exactly the child hashes of the      *)
(* non-empty branches that are reachable from the root through resident    *)
(* inner nodes and have no resident node, each paired with the position of *)
(* such a branch; whatever the firstChild values drawn and whichever reads *)
(* were answered at once or deferred.                                      *)
(***************************************************************************)
C21_ExactMissingSet ==
    (/\ ScanReturned /\ isInner(root)
     /\ last.max > Cardinality(MissingBelow(root)))
    => /\ HashesOf(last.nodes) = MissingBelow(root)
       /\ \A i \in 1 .. Len(last.nodes) :
             last.nodes[i] \in MissingPairs(root, <<>>)

\* a scan of a backed map (reads may be deferred) whose only missing hash
\* sits under two branches of a resident node
C21_Witness ==
    /\ ScanReturned /\ backed /\ root = 4
    /\ MissingBelow(root) = {1}
    /\ Cardinality(MissingPairs(root, <<>>)) = 2
    /\ last.max = 2 /\ last.site = 302
    /\ Len(last.nodes) = 1

(***************************************************************************)
(* C22: within one iteration of the outer loop of getMissingNodes, once    *)
(* deferredReads.size() exceeds desiredAsyncBatch no further branch is     *)
(* examined or prefetched before waitReads is called, and the deferred     *)
(* list never holds more than desiredAsyncBatch + 16 entries.              *)
(***************************************************************************)
C22_InnerScanStopsAtBatch ==
    /\ [](Len(deferredReads) <= MaxDefer + BranchCount)
    /\ [][(pc = "dfs" /\ Len(deferredReads) > MaxDefer) => pc' # "dfs"]_vars

(***************************************************************************)
(* The scan under fairness: the thread that called getMissingNodes keeps   *)
(* running and waitReads returns, so a step of the call that can be taken  *)
(* is taken.  Nothing is assumed of the answers of the store.  The scan is *)
(* started on maps in every residency of their nodes.                      *)
(***************************************************************************)
ScanStep ==
    \/ GMN_KnownMissing
    \/ GMN_FullBelowHit
    \/ GMN_Miss
    \/ GMN_Pending
    \/ GMN_Hit
    \/ GMN_Descend
    \/ GMN_FrameDone
    \/ GMN_Drain

\* the scan and the store, on a map with any of its nodes resident
NextScan ==
    \/ \E h \in StoreHashes : StoreGain(h)
    \/ \E m \in MaxArgs : getMissingNodes(m)
    \/ GMN_KnownMissing
    \/ GMN_FullBelowHit
    \/ GMN_Miss
    \/ GMN_Pending
    \/ GMN_Hit
    \/ GMN_Descend
    \/ GMN_FrameDone
    \/ GMN_Drain
    \/ Resume

SpecLive == InitRead /\ [][NextScan]_vars /\ WF_vars(ScanStep)

\* a call of getMissingNodes is in progress
ScanRunning == pc \in {"dfs", "drain"}

\* the deferred read (parent, branch, id) has been settled: its child
\* pointer is installed, or its hash is recorded as missing
Settled(read, ptrs, mh) ==
    \/ getChildPointer(ptrs, read[1], read[2]) # ZeroHash
    \/ getChildHash(read[1], read[2]) \in mh

(***************************************************************************)
(* C23: every call of getMissingNodes terminates, for every max and every  *)
(* behaviour of the store in which waitReads returns (a store that answers *)
(* pending to every prefetch included): an iteration of the outer loop     *)
(* that deferred a read returns because max is used up, or leaves each of  *)
(* its deferred reads with a newly installed child pointer or with its     *)
(* hash recorded in missingHashes in this iteration.                       *)
(***************************************************************************)
C23_ScanTerminates ==
    /\ ScanRunning ~> ScanReturned
    /\ [][pc = "drain" =>
            /\ deferredReads # <<>>
            /\ \A k \in 1 .. Len(deferredReads) :
                  getChildPointer(childPtr, deferredReads[k][1],
                                  deferredReads[k][2]) = ZeroHash
            /\ \/ pc' = "returned" /\ last'.site = 295
               \/ /\ pc' = "dfs"
                  /\ \A k \in 1 .. Len(deferredReads) :
                        Settled(deferredReads[k], childPtr', missingHashes')
                  /\ childPtr' # childPtr \/ missingHashes' # {}]_vars

\* a scan of a backed map is at waitReads with reads deferred under nodes
\* that an earlier pass installed, and no miss found so far
C23_Witness ==
    /\ pc = "drain" /\ backed /\ root = 4
    /\ deferredReads # <<>>
    /\ \A k \in 1 .. Len(deferredReads) : deferredReads[k][1] # root
    /\ missingHashes = {} /\ ret = <<>>

(***************************************************************************)
(* The scan interleaved with the other users of the family.  The backing   *)
(* store and the full-below cache are shared by the maps of the process:   *)
(* another map inserts into the cache the hash of a subtree that the store *)
(* holds in full; and the generation is bumped, together with a purge of   *)
(* the store, at any moment, also while a call of getMissingNodes is in    *)
(* progress.                                                               *)
(***************************************************************************)
\* the store holds every node below h
RECURSIVE StoredBelow(_)
StoredBelow(h) ==
    \A b \in NonEmptyBranches(h) :
        /\ getChildHash(h, b) \in store
        /\ isInner(getChildHash(h, b)) => StoredBelow(getChildHash(h, b))

\* another map has proven the subtree of h complete and inserts its hash
CacheGain(h) ==
    /\ pc = "idle" /\ ~aborted
    /\ backed
    /\ h \in store /\ h \notin fullbelow
    /\ StoredBelow(h)
    /\ fullbelow' = fullbelow \cup {h}
    /\ UNCHANGED <<mapVars, store, cacheGen, aborted, pc, gmnVars, last>>

\* the nodes a purge of the store removes: none, or one
Purges == {{}} \cup {{h} : h \in StoreHashes}

\* the generation is bumped while the store loses the nodes lost
GenBumpWithPurge(lost) ==
    /\ pc \in {"idle", "dfs", "drain"} /\ ~aborted
    /\ cacheGen < MaxGen
    /\ lost \subseteq store
    /\ cacheGen' = cacheGen + 1
    /\ fullbelow' = {}
    /\ store' = store \ lost
    /\ UNCHANGED <<mapVars, aborted, pc, gmnVars, last>>

NextBump ==
    \/ \E h \in StoreHashes : StoreGain(h)
    \/ \E h \in InnerHashes \cap StoreHashes : CacheGain(h)
    \/ \E lost \in Purges : GenBumpWithPurge(lost)
    \/ \E m \in MaxArgs : getMissingNodes(m)
    \/ GMN_KnownMissing
    \/ GMN_FullBelowHit
    \/ GMN_Miss
    \/ GMN_Pending
    \/ GMN_Hit
    \/ GMN_Descend
    \/ GMN_FrameDone
    \/ GMN_Drain
    \/ Resume

SpecBump == Init /\ [][NextBump]_vars

(***************************************************************************)
(* C24: when the generation is bumped, together with a purge of the store, *)
(* while a call of getMissingNodes is in progress, the call inserts into   *)
(* the cache of the new generation no hash whose subtree it found complete *)
(* from evidence of the old generation: in every interleaving a hash in    *)
(* the cache of the current generation has all its descendants resident.   *)
(***************************************************************************)
C24_CacheHitSoundUnderBump == \A h \in fullbelow : MissingBelow(h) = {}

====
